---- MODULE Spec2Model ----
(***************************************************************************)
(* A model of cryptobot's main.py: the transport helpers _get/_post, the   *)
(* Binance client (request signing, paginated kline retrieval, account     *)
(* valuation, order placement) and the rebalancing loop of main().         *)
(*                                                                         *)
(* Numbers.  Python floats are modelled as exact fixed-point integers:     *)
(* candle open times are whole interval indices, money is in cents (or in  *)
(* tenths of a cent before rounding), round(x, 2) is rounding to the cent  *)
(* with ties to even.                                                      *)
(***************************************************************************)
EXTENDS Integers, Sequences, FiniteSets, TLC

VARIABLES
    \* ---- get_symbol_klines / get_symbol_klines_extra ----
    kpc,            \* position: "start", "loop", "returned", "raised"
    limit,          \* requested number of candles
    end_time,       \* requested end time; 0 is Python's False (no endTime)
    now,            \* open time of the newest candle the exchange holds
    repeat_rounds,  \* local of get_symbol_klines_extra
    initial_limit,  \* local of get_symbol_klines_extra
    df,             \* the 'time' column of the running dataframe
    requests,       \* limits of the page requests sent so far, in order
    \* ---- _get / _post ----
    tpc,            \* position: "call", "returned", "raised"
    method,         \* "GET" or "POST"
    url,            \* requested url
    wire,           \* what the network hands back to this call
    data,           \* the value returned to the caller
    \* ---- get_account_balances ----
    bpc,            \* position: "start", "loop", "returned", "raised"
    spot_account,   \* sequence of balance entries of the account response
    cont,           \* 1-based position in spot_account['balances']
    account_assets, \* dict: key -> cents
    balance_usd,    \* running unrounded total, in tenths of a cent
    lookups,        \* outcome of each price lookup made so far
    \* ---- rebalancing loop of main() ----
    rpc,            \* position: "loop", "done", "aborted"
    wallet,         \* sequence of [asset, pct] in spreadsheet order
    balances,       \* dict returned by get_account_balances: key -> cents
    idx,            \* 1-based position in wallet
    orders,         \* order submissions attempted so far, in order
    \* ---- authenticated operations ----
    apc,            \* position: "call", "built", "signed", "sent"
    binance_keys,   \* the secret key read from the credentials file
    op,             \* which authenticated operation runs
    params,         \* the parameter dict, as an ordered list of <<key, value>>
    sent            \* the request handed to _get/_post

kvars == <<kpc, limit, end_time, now, repeat_rounds, initial_limit, df, requests>>
tvars == <<tpc, method, url, wire, data>>
bvars == <<bpc, spot_account, cont, account_assets, balance_usd, lookups>>
rvars == <<rpc, wallet, balances, idx, orders>>
avars == <<apc, binance_keys, op, params, sent>>
vars == <<kvars, tvars, bvars, rvars, avars>>

Min(a, b) == IF a < b THEN a ELSE b
Max(a, b) == IF a > b THEN a ELSE b

(***************************************************************************)
(* Kline retrieval                                                         *)
(***************************************************************************)

\* The page cap of the klines endpoint (limit > 1000 switches to paging).
Cap == 1000

\* Largest number of full pages a modelled request asks for.
MaxRounds == 2

\* Open time of the oldest candle the exchange holds.
First == 101

Limits ==
    {1, 500, Cap} \cup {k * Cap + r : k \in 1..MaxRounds, r \in {0, 1, 500}}

NowChoices == {900, MaxRounds * Cap + 1800}

\* 0: no end time; 50 lies before the oldest candle (an empty page).
EndTimes == {0, 50, 700, 2200}

PageOutcomes == {"ok", "transport", "error"}

\* The candles GET /api/v3/klines answers with: the newest `lim` candles whose
\* open time is <= endTime (endTime is inclusive), oldest first.
KlinesResponse(lim, et, newest) ==
    LET hi == IF et # 0 THEN Min(et, newest) ELSE newest
        lo == Max(First, hi - lim + 1)
    IN  IF hi < First THEN <<>> ELSE [i \in 1..(hi - lo + 1) |-> lo + i - 1]

\* One call of get_symbol_klines with limit <= 1000.  requests.get and
\* json.loads are not guarded: a transport failure raises; an error-coded body
\* (a dict of scalars) makes DataFrame.from_dict raise; an empty page makes
\* df.drop(range(6, 12)) raise.  Otherwise the page's dataframe is returned.
PageRaises(outcome, page) == outcome # "ok" \/ page = <<>>

KlinesIdle ==
    /\ kpc = "idle" /\ limit = 0 /\ end_time = 0 /\ now = 0
    /\ repeat_rounds = 0 /\ initial_limit = 0 /\ df = <<>> /\ requests = <<>>

InitKlines ==
    /\ kpc = "start"
    /\ limit \in Limits
    /\ end_time \in EndTimes
    /\ now \in NowChoices
    /\ repeat_rounds = 0 /\ initial_limit = 0 /\ df = <<>> /\ requests = <<>>

\* get_symbol_klines, limit <= 1000: a single page.
get_symbol_klines ==
    /\ kpc = "start"
    /\ ~(limit > Cap)
    /\ \E outcome \in PageOutcomes :
        LET page == KlinesResponse(limit, end_time, now)
        IN  /\ requests' = Append(requests, limit)
            /\ IF PageRaises(outcome, page)
               THEN kpc' = "raised" /\ df' = df
               ELSE kpc' = "returned" /\ df' = page
    /\ UNCHANGED <<limit, end_time, now, repeat_rounds, initial_limit>>

\* get_symbol_klines with limit > 1000 delegates to get_symbol_klines_extra:
\* its prologue and the first page.
get_symbol_klines_extra ==
    /\ kpc = "start"
    /\ limit > Cap
    /\ LET rounds == IF limit > Cap THEN limit \div Cap ELSE 0
           rem == limit % Cap
           first == IF rem = 0 THEN Cap ELSE rem
       IN  /\ repeat_rounds' = rounds
           /\ initial_limit' = first
           /\ requests' = Append(requests, first)
           /\ \E outcome \in PageOutcomes :
                LET page == KlinesResponse(first, end_time, now)
                IN  IF PageRaises(outcome, page)
                    THEN kpc' = "raised" /\ df' = df
                    ELSE kpc' = "loop" /\ df' = page
    /\ UNCHANGED <<limit, end_time, now>>

\* df2.append(df, ignore_index=True): plain concatenation, older page first.
MergePages(df2, df1) == df2 \o df1

\* One round of the while loop: 1000 candles ending at df['time'][0].
extra_round ==
    /\ kpc = "loop"
    /\ repeat_rounds > 0
    /\ requests' = Append(requests, Cap)
    /\ \E outcome \in PageOutcomes :
        LET page == KlinesResponse(Cap, df[1], now)
        IN  IF PageRaises(outcome, page)
            THEN /\ kpc' = "raised"
                 /\ UNCHANGED <<df, repeat_rounds>>
            ELSE /\ kpc' = "loop"
                 /\ df' = MergePages(page, df)
                 /\ repeat_rounds' = repeat_rounds - 1
    /\ UNCHANGED <<limit, end_time, now, initial_limit>>

extra_return ==
    /\ kpc = "loop"
    /\ ~(repeat_rounds > 0)
    /\ kpc' = "returned"
    /\ UNCHANGED <<limit, end_time, now, repeat_rounds, initial_limit, df, requests>>

(***************************************************************************)
(* Transport: _get and _post                                               *)
(***************************************************************************)

\* Python dicts are functions from their keys.
EmptyDict == [k \in {} |-> ""]

DictSet(d, k, v) == [x \in (DOMAIN d) \cup {k} |-> IF x = k THEN v ELSE d[x]]

Urls == {"https://api.binance.com/api/v3/account", "https://api.binance.com/api/v3/order"}

BodyKeys == {"code", "msg", "lastPrice"}

BodyValues == {"-1121", "0.5"}

\* JSON objects the exchange may answer with.
JsonObjects == UNION {[ks -> BodyValues] : ks \in SUBSET BodyKeys}

\* What the network hands back: no response at all (requests raises), a text
\* that is not JSON, or a JSON document: an object, an array, or a scalar
\* (string, number, true/false/null).
Wires ==
    {[kind |-> k, body |-> EmptyDict] : k \in {"neterr", "badjson", "array", "scalar"}}
    \cup {[kind |-> "object", body |-> o] : o \in JsonObjects}

\* json.loads succeeded.
Decoded(w) == w.kind \in {"object", "array", "scalar"}

\* The exception the try block ends with, if any: requests raises, json.loads
\* raises, or data['url'] = url raises TypeError on a body that is no dict.
RaisedIn(w) ==
    CASE w.kind = "neterr" -> "ConnectionError"
      [] w.kind = "badjson" -> "JSONDecodeError"
      [] w.kind = "array" -> "TypeError"
      [] w.kind = "scalar" -> "TypeError"
      [] OTHER -> "none"

Exceptions == {"ConnectionError", "JSONDecodeError", "TypeError"}

\* data = {'code': '-1', 'url': url, 'msg': e}
FailureValue(u, e) == [code |-> "-1", url |-> u, msg |-> e]

\* The body of _get and of _post: the try block, then the except block.
Transport(u, w) ==
    IF RaisedIn(w) = "none"
    THEN DictSet(w.body, "url", u)
    ELSE FailureValue(u, RaisedIn(w))

TransportIdle ==
    /\ tpc = "idle" /\ method = "GET" /\ url = "" /\ data = EmptyDict
    /\ wire = [kind |-> "neterr", body |-> EmptyDict]

InitTransport ==
    /\ tpc = "call"
    /\ method \in {"GET", "POST"}
    /\ url \in Urls
    /\ wire \in Wires
    /\ data = EmptyDict

_get ==
    /\ tpc = "call"
    /\ method = "GET"
    /\ data' = Transport(url, wire)
    /\ tpc' = "returned"
    /\ UNCHANGED <<method, url, wire>>

_post ==
    /\ tpc = "call"
    /\ method = "POST"
    /\ data' = Transport(url, wire)
    /\ tpc' = "returned"
    /\ UNCHANGED <<method, url, wire>>

(***************************************************************************)
(* Valuation: get_account_balances                                         *)
(***************************************************************************)

\* n / d rounded to the nearest integer, ties to even (Python's round).
RoundHalfEven(n, d) ==
    LET q == n \div d
        r == n % d
    IN  IF 2 * r < d THEN q
        ELSE IF 2 * r > d THEN q + 1
        ELSE IF q % 2 = 0 THEN q ELSE q + 1

\* Unrounded amounts are kept in tenths of a cent.
MillsPerCent == 10

\* round(x, 2) of an amount in tenths of a cent, in cents.
Round2(mills) == RoundHalfEven(mills, MillsPerCent)

\* Largest free amount (in coins) of a non-quote asset of a modelled snapshot.
MaxFree == 2

\* The order in which the exchange lists the assets of the account.
AssetOrder == <<"BTC", "USDT", "ETH", "BRL", "NFT">>

\* Free amounts an asset may show: coins, or tenths of a cent for USDT.
FreeChoices(a) ==
    CASE a = "USDT" -> {0, 4, 2005}
      [] a \in {"BRL", "NFT"} -> {1}
      [] OTHER -> 0..MaxFree

\* lastPrice of a ticker answer, in tenths of a cent per coin.
Prices == {4, 15, 2505}

LookupOutcomes == Prices \cup {-1}

\* balance['asset'] + 'USDT'
PairSymbol(a) ==
    CASE a = "BTC" -> "BTCUSDT"
      [] a = "ETH" -> "ETHUSDT"
      [] a = "BRL" -> "BRLUSDT"
      [] a = "NFT" -> "NFTUSDT"
      [] OTHER -> "USDTUSDT"

RECURSIVE Snapshot(_, _, _)
\* The balances of the account response: the assets held, in the exchange's order.
Snapshot(held, free, i) ==
    IF i > Len(AssetOrder) THEN <<>>
    ELSE LET a == AssetOrder[i]
         IN  (IF a \in held THEN <<[asset |-> a, free |-> free[a]]>> ELSE <<>>)
                 \o Snapshot(held, free, i + 1)

BalancesIdle ==
    /\ bpc = "idle" /\ spot_account = <<>> /\ cont = 0
    /\ account_assets = EmptyDict /\ balance_usd = 0 /\ lookups = <<>>

InitBalances ==
    /\ bpc = "start"
    /\ \E held \in SUBSET {AssetOrder[i] : i \in 1..Len(AssetOrder)} :
        \E free \in [held -> UNION {FreeChoices(a) : a \in held}] :
            /\ \A a \in held : free[a] \in FreeChoices(a)
            /\ spot_account = Snapshot(held, free, 1)
    /\ cont = 0
    /\ account_assets = EmptyDict
    /\ balance_usd = 0
    /\ lookups = <<>>

\* The account request.  A failure value has no 'balances' key, so
\* spot_account['balances'] raises KeyError.
balances_request ==
    /\ bpc = "start"
    /\ \E ok \in BOOLEAN :
        bpc' = IF ok THEN "loop" ELSE "raised"
    /\ cont' = 1
    /\ UNCHANGED <<spot_account, account_assets, balance_usd, lookups>>

\* NeedsPrice with 'BRL' missing from the exclusion list.
NeedsPrice_brl(b) == b.asset \notin {"NFT", "USDT"} /\ b.free > 0

\* balance['asset'] not in ['NFT', 'USDT', 'BRL'] and float(balance['free']) > 0
NeedsPrice(b) == b.asset \notin {"NFT", "USDT", "BRL"} /\ b.free > 0

\* One iteration of the for loop over spot_account['balances'].
balances_iter ==
    /\ bpc = "loop"
    /\ cont <= Len(spot_account)
    /\ LET b == spot_account[cont]
           quoted == IF b.asset = "USDT"
                     THEN DictSet(account_assets, "USDT", Round2(b.free))
                     ELSE account_assets
           usd == IF b.asset = "USDT" THEN balance_usd + b.free ELSE balance_usd
       IN  IF NeedsPrice(b)
           THEN \E price \in LookupOutcomes :
                /\ lookups' = Append(lookups, [asset |-> b.asset, price |-> price])
                /\ IF price < 0
                   THEN \* the ticker answer is a failure value: ['lastPrice'] raises KeyError
                        /\ bpc' = "raised"
                        /\ account_assets' = quoted
                        /\ balance_usd' = usd
                        /\ cont' = cont
                   ELSE /\ bpc' = "loop"
                        /\ account_assets' =
                               DictSet(quoted, PairSymbol(b.asset), Round2(price * b.free))
                        /\ balance_usd' = usd + price * b.free
                        /\ cont' = cont + 1
           ELSE /\ bpc' = "loop"
                /\ account_assets' = quoted
                /\ balance_usd' = usd
                /\ cont' = cont + 1
                /\ lookups' = lookups
    /\ UNCHANGED spot_account

balances_return ==
    /\ bpc = "loop"
    /\ cont > Len(spot_account)
    /\ account_assets' = DictSet(account_assets, "BALANCE", Round2(balance_usd))
    /\ bpc' = "returned"
    /\ UNCHANGED <<spot_account, cont, balance_usd, lookups>>

(***************************************************************************)
(* Rebalancing: the loop of main()                                         *)
(***************************************************************************)

\* The tolerance of main(), in units of the valuation currency.
Tolerance == 10

\* round(x, 2): cents per unit of the valuation currency.
CentsPerUnit == 100

\* The wallet's assets, in spreadsheet order.
WalletAssets == <<"BTCUSDT", "USDT", "ETHUSDT">>

\* Target percentages of the modelled wallets.
Weights == {0, 5, 30, 33}

\* The quote currency's own percentage is never read by the loop.
WeightsOf(asset) == IF asset = "USDT" THEN {40} ELSE Weights

\* Valuations (cents) a held asset may have, and portfolio totals (cents).
Holdings == {0, 1990, 2000, 4000, 4001}

Totals == {10000, 10050}

SubmitOutcomes == {"ok", "failure", "exception"}

RECURSIVE SumOver(_, _)
SumOver(f, S) ==
    IF S = {} THEN 0
    ELSE LET k == CHOOSE x \in S : TRUE IN f[k] + SumOver(f, S \ {k})

RebalanceIdle ==
    /\ rpc = "idle" /\ wallet = <<>> /\ balances = EmptyDict /\ idx = 0 /\ orders = <<>>

InitRebalance ==
    /\ rpc = "loop"
    /\ \E pct \in [1..Len(WalletAssets) -> Weights \cup {40}] :
        /\ \A i \in 1..Len(WalletAssets) : pct[i] \in WeightsOf(WalletAssets[i])
        /\ wallet = [i \in 1..Len(WalletAssets) |-> [asset |-> WalletAssets[i], pct |-> pct[i]]]
    /\ \E held \in SUBSET {WalletAssets[i] : i \in 1..Len(WalletAssets)} :
        \E value \in [held -> Holdings], total \in Totals :
            /\ SumOver(value, held) <= total
            /\ balances = [k \in held \cup {"BALANCE"} |->
                              IF k = "BALANCE" THEN total ELSE value[k]]
    /\ idx = 1
    /\ orders = <<>>

\* (wallet[asset] / 100) * balances['BALANCE'], in hundredths of a cent.
Target100(pct, bal) == pct * bal["BALANCE"]

\* The tolerance in hundredths of a cent.
Tolerance100 == Tolerance * CentsPerUnit * 100

\* PlanAsset with the SELL test written >= : an order at the edge of the band.
PlanAsset_inclusive(asset, pct, bal) ==
    IF asset \in {"USDT"} THEN <<>>
    ELSE IF asset \in DOMAIN bal
    THEN (IF 100 * bal[asset] >= Target100(pct, bal) + Tolerance100
          THEN <<[symbol |-> asset, side |-> "SELL",
                  quantity |-> RoundHalfEven(100 * bal[asset] - Target100(pct, bal), 100)]>>
          ELSE <<>>)
         \o
         (IF 100 * bal[asset] < Target100(pct, bal) - Tolerance100
          THEN <<[symbol |-> asset, side |-> "BUY",
                  quantity |-> RoundHalfEven(Target100(pct, bal) - 100 * bal[asset], 100)]>>
          ELSE <<>>)
    ELSE <<[symbol |-> asset, side |-> "BUY",
            quantity |-> RoundHalfEven(Target100(pct, bal), 100)]>>

\* The market orders one iteration of the loop submits for `asset`, in order.
PlanAsset(asset, pct, bal) ==
    IF asset \in {"USDT"} THEN <<>>
    ELSE IF asset \in DOMAIN bal
    THEN (IF 100 * bal[asset] > Target100(pct, bal) + Tolerance100
          THEN <<[symbol |-> asset, side |-> "SELL",
                  quantity |-> RoundHalfEven(100 * bal[asset] - Target100(pct, bal), 100)]>>
          ELSE <<>>)
         \o
         (IF 100 * bal[asset] < Target100(pct, bal) - Tolerance100
          THEN <<[symbol |-> asset, side |-> "BUY",
                  quantity |-> RoundHalfEven(Target100(pct, bal) - 100 * bal[asset], 100)]>>
          ELSE <<>>)
    ELSE <<[symbol |-> asset, side |-> "BUY",
            quantity |-> RoundHalfEven(Target100(pct, bal), 100)]>>

\* Propagates without the try / except around market_order.
Propagates_uncaught(outcome) == outcome = "exception"

\* Whether an exception raised by exchange.market_order leaves the loop: every
\* call sits in try / except Exception, which prints it and goes on.
Propagates(outcome) == FALSE

\* One iteration of `for asset in wallet`.
rebalance_asset ==
    /\ rpc = "loop"
    /\ idx <= Len(wallet)
    /\ LET plan == PlanAsset(wallet[idx].asset, wallet[idx].pct, balances)
       IN  \E outs \in [1..Len(plan) -> SubmitOutcomes] :
            LET attempts == [i \in 1..Len(plan) |->
                               [symbol |-> plan[i].symbol, side |-> plan[i].side,
                                quantity |-> plan[i].quantity, outcome |-> outs[i]]]
                escaped == {i \in 1..Len(plan) : Propagates(outs[i])}
            IN  IF escaped = {}
                THEN /\ orders' = orders \o attempts
                     /\ idx' = idx + 1
                     /\ rpc' = "loop"
                ELSE /\ orders' = orders \o
                            SubSeq(attempts, 1, CHOOSE i \in escaped : \A j \in escaped : i <= j)
                     /\ idx' = idx
                     /\ rpc' = "aborted"
    /\ UNCHANGED <<wallet, balances>>

rebalance_done ==
    /\ rpc = "loop"
    /\ idx > Len(wallet)
    /\ rpc' = "done"
    /\ UNCHANGED <<wallet, balances, idx, orders>>

(***************************************************************************)
(* Authenticated operations: signing and sending                           *)
(***************************************************************************)

\* The module-level clock-skew correction.
request_delay == 0

Secrets == {"secretA", "secretB"}

\* int(round(time.time() * 1000)), counted from the start of the run.
Clock == {1000, 1001}

Symbols == {"BTCUSDT", "ETHUSDT"}

Sides == {"BUY", "SELL"}

OrderTypes == {"MARKET", "LIMIT"}

\* Quantities and prices, in cents.
Amounts == {0, 1050, 20000}

\* repr of a float with at most two decimals, as its characters' tokens.
FloatRepr(cents) ==
    LET whole == cents \div 100
        frac == cents % 100
    IN  IF frac % 10 = 0
        THEN <<ToString(whole), ".", ToString(frac \div 10)>>
        ELSE <<ToString(whole), ".", ToString(frac \div 10), ToString(frac % 10)>>

\* Binance.float_to_string: the float's repr read as a decimal of 12
\* significant digits and formatted without exponent.  For amounts of at most
\* 12 digits this is the digits of the repr.
float_to_string(f) == FloatRepr(f)

\* "{}".format(params[d]) for the value stored under key d.
FormatValue(k, v) ==
    CASE k \in {"recvWindow", "timestamp"} -> <<ToString(v)>>
      [] k = "quoteOrderQty" -> FloatRepr(v)
      [] k = "price" -> v
      [] OTHER -> <<v>>

RECURSIVE QueryString(_)
\* '&'.join(["{}={}".format(d, params[d]) for d in params])
QueryString(p) ==
    IF p = <<>> THEN <<>>
    ELSE LET head == <<p[1][1], "=">> \o FormatValue(p[1][1], p[1][2])
         IN  IF Len(p) = 1 THEN head ELSE head \o <<"&">> \o QueryString(Tail(p))

\* hmac.new(secret, query_string, sha256).hexdigest(), as a symbolic digest.
HmacSha256(secret, msg) == [key |-> secret, msg |-> msg]

\* sign_request signing a query string that misses the last parameter.
sign_request_stale(secret, p) ==
    Append(p, <<"signature", HmacSha256(secret, QueryString(SubSeq(p, 1, Len(p) - 1)))>>)

\* Binance.sign_request: params['signature'] = signature.hexdigest()
sign_request(secret, p) ==
    Append(p, <<"signature", HmacSha256(secret, QueryString(p))>>)

\* The params dict of get_account_data and of get_account_balances.
AccountParams(ts) ==
    << <<"recvWindow", 6000>>, <<"timestamp", ts + request_delay>> >>

\* The params dict of market_order.
MarketOrderParams(symbol, side, quantity, ts) ==
    << <<"symbol", symbol>>, <<"side", side>>, <<"type", "MARKET">>,
       <<"quoteOrderQty", quantity>>, <<"recvWindow", 5000>>,
       <<"timestamp", ts + request_delay>> >>

\* The params dict of place_order before signing.  The test `type != 'MARKET'`
\* compares the builtin `type`, not the argument tpe, so it always holds.
PlaceOrderParams(symbol, side, tpe, quantity, price, ts) ==
    << <<"symbol", symbol>>, <<"side", side>>, <<"type", tpe>>,
       <<"quoteOrderQty", quantity>>, <<"recvWindow", 5000>>,
       <<"timestamp", ts + request_delay>> >>
    \o << <<"timeInForce", "GTC">>, <<"price", float_to_string(price)>> >>

NoRequest == [method |-> "none", url |-> "", params |-> <<>>]

AuthIdle ==
    /\ apc = "idle" /\ binance_keys = "" /\ op = "" /\ params = <<>> /\ sent = NoRequest

InitAuth ==
    /\ apc = "call"
    /\ binance_keys \in Secrets
    /\ op \in {"get_account_data", "get_account_balances", "market_order", "place_order"}
    /\ params = <<>>
    /\ sent = NoRequest

get_account_data ==
    /\ apc = "call" /\ op = "get_account_data"
    /\ \E ts \in Clock : params' = AccountParams(ts)
    /\ apc' = "built"
    /\ UNCHANGED <<binance_keys, op, sent>>

get_account_balances ==
    /\ apc = "call" /\ op = "get_account_balances"
    /\ \E ts \in Clock : params' = AccountParams(ts)
    /\ apc' = "built"
    /\ UNCHANGED <<binance_keys, op, sent>>

market_order ==
    /\ apc = "call" /\ op = "market_order"
    /\ \E symbol \in Symbols, side \in Sides, quantity \in Amounts, ts \in Clock :
        params' = MarketOrderParams(symbol, side, quantity, ts)
    /\ apc' = "built"
    /\ UNCHANGED <<binance_keys, op, sent>>

place_order ==
    /\ apc = "call" /\ op = "place_order"
    /\ \E symbol \in Symbols, side \in Sides, tpe \in OrderTypes,
          quantity \in Amounts, price \in Amounts, ts \in Clock :
        params' = PlaceOrderParams(symbol, side, tpe, quantity, price, ts)
    /\ apc' = "built"
    /\ UNCHANGED <<binance_keys, op, sent>>

\* self.sign_request(params)
sign ==
    /\ apc = "built"
    /\ params' = sign_request(binance_keys, params)
    /\ apc' = "signed"
    /\ UNCHANGED <<binance_keys, op, sent>>

\* return _get(url, params, self.headers) / _post(url, params=params, ...)
send ==
    /\ apc = "signed"
    /\ \E test \in BOOLEAN :
        sent' = [method |-> IF op \in {"market_order", "place_order"} THEN "POST" ELSE "GET",
                 url |-> CASE op = "market_order" -> "/api/v3/order"
                           [] op = "place_order" ->
                                IF test THEN "/api/v3/order/test" ELSE "/api/v3/order"
                           [] OTHER -> "/api/v3/account",
                 params |-> params]
    /\ apc' = "sent"
    /\ UNCHANGED <<binance_keys, op, params>>

(***************************************************************************)
(* Specifications, one per component                                       *)
(***************************************************************************)

NextKlines ==
    \/ get_symbol_klines /\ UNCHANGED <<tvars, bvars, rvars, avars>>
    \/ get_symbol_klines_extra /\ UNCHANGED <<tvars, bvars, rvars, avars>>
    \/ extra_round /\ UNCHANGED <<tvars, bvars, rvars, avars>>
    \/ extra_return /\ UNCHANGED <<tvars, bvars, rvars, avars>>

InitKlinesSpec == InitKlines /\ TransportIdle /\ BalancesIdle /\ RebalanceIdle /\ AuthIdle

SpecKlines == InitKlinesSpec /\ [][NextKlines]_vars

NextTransport ==
    \/ _get /\ UNCHANGED <<kvars, bvars, rvars, avars>>
    \/ _post /\ UNCHANGED <<kvars, bvars, rvars, avars>>

InitTransportSpec == KlinesIdle /\ InitTransport /\ BalancesIdle /\ RebalanceIdle /\ AuthIdle

SpecTransport == InitTransportSpec /\ [][NextTransport]_vars

NextBalances ==
    \/ balances_request /\ UNCHANGED <<kvars, tvars, rvars, avars>>
    \/ balances_iter /\ UNCHANGED <<kvars, tvars, rvars, avars>>
    \/ balances_return /\ UNCHANGED <<kvars, tvars, rvars, avars>>

InitBalancesSpec == KlinesIdle /\ TransportIdle /\ InitBalances /\ RebalanceIdle /\ AuthIdle

SpecBalances == InitBalancesSpec /\ [][NextBalances]_vars

NextRebalance ==
    \/ rebalance_asset /\ UNCHANGED <<kvars, tvars, bvars, avars>>
    \/ rebalance_done /\ UNCHANGED <<kvars, tvars, bvars, avars>>

InitRebalanceSpec == KlinesIdle /\ TransportIdle /\ BalancesIdle /\ InitRebalance /\ AuthIdle

SpecRebalance == InitRebalanceSpec /\ [][NextRebalance]_vars

\* main() is sequential code: it keeps running until the loop ends.
FairSpecRebalance == SpecRebalance /\ WF_vars(NextRebalance)

NextAuth ==
    \/ get_account_data /\ UNCHANGED <<kvars, tvars, bvars, rvars>>
    \/ get_account_balances /\ UNCHANGED <<kvars, tvars, bvars, rvars>>
    \/ market_order /\ UNCHANGED <<kvars, tvars, bvars, rvars>>
    \/ place_order /\ UNCHANGED <<kvars, tvars, bvars, rvars>>
    \/ sign /\ UNCHANGED <<kvars, tvars, bvars, rvars>>
    \/ send /\ UNCHANGED <<kvars, tvars, bvars, rvars>>

InitAuthSpec == KlinesIdle /\ TransportIdle /\ BalancesIdle /\ RebalanceIdle /\ InitAuth

SpecAuth == InitAuthSpec /\ [][NextAuth]_vars

(***************************************************************************)
(* Properties                                                              *)
(***************************************************************************)

StrictlyIncreasing(s) == \A i \in 1..(Len(s) - 1) : s[i] < s[i + 1]

RECURSIVE SumSeq(_)
SumSeq(s) == IF s = <<>> THEN 0 ELSE Head(s) + SumSeq(Tail(s))

\* Candles the exchange holds up to the requested end time.
Available ==
    LET hi == IF end_time # 0 THEN Min(end_time, now) ELSE now
    IN  IF hi < First THEN 0 ELSE hi - First + 1

\* C1: for every requested count above the page cap, the merged series a
\* kline fetch returns is strictly increasing by open time (so it holds no
\* open time twice, the boundary candle included).
C1_MergedSeriesStrictlyIncreasing ==
    (kpc = "returned" /\ limit > Cap) => StrictlyIncreasing(df)

\* C2: a kline fetch returns exactly min(N, available) candles; the page sizes
\* requested sum to N, and when N is a multiple of the cap the number of page
\* requests is N / cap.
C2_LengthAndPageAccounting ==
    kpc = "returned" =>
        /\ Len(df) = Min(limit, Available)
        /\ SumSeq(requests) = limit
        /\ (limit % Cap = 0 => Len(requests) = limit \div Cap)

\* C3: a failing page request never makes the kline fetch raise.
C3_PageFailureDoesNotRaise == kpc # "raised"

\* C4: _get and _post never raise; a failure gives a failure value with code,
\* message and url; a successfully decoded body is never turned into a
\* failure value.
C4_TransportUniformResult ==
    /\ tpc # "raised"
    /\ tpc = "returned" =>
        /\ ~Decoded(wire) => \E e \in Exceptions : data = FailureValue(url, e)
        /\ Decoded(wire) => \A e \in Exceptions : data # FailureValue(url, e)

\* The orders submitted so far for a symbol, by side.
OrdersFor(asset, side) ==
    {j \in 1..Len(orders) : orders[j].symbol = asset /\ orders[j].side = side}

\* C5: for every target asset other than the quote currency that is present in
\* the valued portfolio, once its iteration has run: a SELL of current - target
\* was submitted iff current > target + 10, a BUY of target - current iff
\* current < target - 10, never both, and nothing is submitted for the quote
\* currency.
C5_ToleranceBand ==
    /\ \A j \in 1..Len(orders) : orders[j].symbol # "USDT"
    /\ \A i \in 1..(idx - 1) :
        LET asset == wallet[i].asset
            cur == 100 * balances[asset]
            tgt == wallet[i].pct * balances["BALANCE"]
            tol == 100 * 100 * Tolerance
        IN  (asset # "USDT" /\ asset \in DOMAIN balances) =>
                /\ OrdersFor(asset, "SELL") # {} <=> cur > tgt + tol
                /\ OrdersFor(asset, "BUY") # {} <=> cur < tgt - tol
                /\ \A j \in OrdersFor(asset, "SELL") :
                    orders[j].quantity = RoundHalfEven(cur - tgt, 100)
                /\ \A j \in OrdersFor(asset, "BUY") :
                    orders[j].quantity = RoundHalfEven(tgt - cur, 100)
                /\ Cardinality(OrdersFor(asset, "SELL") \cup OrdersFor(asset, "BUY")) <= 1

\* A finished pass that sold one held asset, 10.01 above its target, and
\* bought another held asset.
C5_Witness ==
    /\ rpc = "done"
    /\ \E i, k \in 1..Len(wallet) :
        /\ wallet[i].asset \in DOMAIN balances
        /\ wallet[k].asset \in DOMAIN balances
        /\ OrdersFor(wallet[i].asset, "SELL") # {}
        /\ OrdersFor(wallet[k].asset, "BUY") # {}
        /\ \E j \in OrdersFor(wallet[i].asset, "SELL") : orders[j].quantity = 1001

\* C6: for a target asset absent from the valued portfolio, once its iteration
\* has run: a BUY of the target value was submitted iff target > 10.
C6_AbsentAssetBand ==
    \A i \in 1..(idx - 1) :
        LET asset == wallet[i].asset
            tgt == wallet[i].pct * balances["BALANCE"]
            tol == 100 * 100 * Tolerance
        IN  (asset # "USDT" /\ asset \notin DOMAIN balances) =>
                /\ OrdersFor(asset, "BUY") # {} <=> tgt > tol
                /\ OrdersFor(asset, "SELL") = {}

\* Whether wallet[i] lies outside its tolerance band (an absent asset is worth 0).
OutsideBand(i) ==
    LET asset == wallet[i].asset
        cur == IF asset \in DOMAIN balances THEN 100 * balances[asset] ELSE 0
        tgt == wallet[i].pct * balances["BALANCE"]
        tol == 100 * 100 * Tolerance
    IN  asset # "USDT" /\ (cur > tgt + tol \/ cur < tgt - tol)

\* C7: whichever order submissions fail, by a failure value or by an
\* exception, the pass reaches the end of the wallet, and then an order has
\* been attempted for every asset outside its tolerance band.
C7_Isolation ==
    /\ <>(rpc = "done")
    /\ [](rpc = "done" =>
            /\ idx = Len(wallet) + 1
            /\ \A i \in 1..Len(wallet) :
                OutsideBand(i) => \E j \in 1..Len(orders) : orders[j].symbol = wallet[i].asset)

\* A finished pass in which a submission raised and one failed, each followed
\* by the attempt for a later asset.
C7_Witness ==
    /\ rpc = "done"
    /\ Len(orders) = 2
    /\ orders[1].outcome \in {"exception", "failure"}
    /\ orders[1].symbol # orders[2].symbol

\* C8: a failed price lookup for one held asset does not abort the valuation.
C8_LookupFailureDoesNotAbort ==
    (\E i \in 1..Len(lookups) : lookups[i].price < 0) => bpc # "raised"

\* The keys of the per-asset entries of the valued portfolio.
Reported == (DOMAIN account_assets) \ {"BALANCE"}

\* C9 as claimed: the reported total is the sum of the reported per-asset
\* valuations and the reported USDT amount.
C9_TotalIsSumOfReported ==
    bpc = "returned" =>
        account_assets["BALANCE"] = SumOver(account_assets, Reported)

\* The lastPrice the lookup for an asset answered with.
PriceOf(a) == (CHOOSE i \in 1..Len(lookups) : lookups[i].asset = a)

\* The exact value (tenths of a cent) of one balance entry: face amount for
\* USDT, price * free for a held asset that is neither NFT nor BRL, else 0.
ExactValue(b) ==
    IF b.asset = "USDT" THEN b.free
    ELSE IF b.asset \notin {"NFT", "BRL"} /\ b.free > 0
    THEN lookups[PriceOf(b.asset)].price * b.free
    ELSE 0

RECURSIVE ExactTotal(_)
ExactTotal(bs) == IF bs = <<>> THEN 0 ELSE ExactValue(Head(bs)) + ExactTotal(Tail(bs))

Abs(x) == IF x < 0 THEN -x ELSE x

\* C9, amended: when get_account_balances returns, BALANCE is the exact sum of
\* the USDT face amount and price * free of every held asset other than NFT and
\* BRL, rounded once to 2 decimals; each reported entry is its own exact value
\* rounded to 2 decimals, so BALANCE is within half a cent per reported entry,
\* plus half a cent, of the sum of the reported entries; assets with zero free
\* balance, NFT and BRL are not reported and add nothing.
C9_TotalIsRoundedExactSum ==
    bpc = "returned" =>
        /\ account_assets["BALANCE"] = Round2(ExactTotal(spot_account))
        /\ Reported =
               {IF spot_account[i].asset = "USDT" THEN "USDT"
                ELSE PairSymbol(spot_account[i].asset) :
                    i \in {n \in 1..Len(spot_account) :
                              \/ spot_account[n].asset = "USDT"
                              \/ /\ spot_account[n].asset \notin {"NFT", "BRL"}
                                 /\ spot_account[n].free > 0}}
        /\ \A i \in 1..Len(spot_account) :
            LET b == spot_account[i]
                key == IF b.asset = "USDT" THEN "USDT" ELSE PairSymbol(b.asset)
            IN  key \in Reported => account_assets[key] = Round2(ExactValue(b))
        /\ 2 * Abs(account_assets["BALANCE"] - SumOver(account_assets, Reported))
               * MillsPerCent
             <= (Cardinality(Reported) + 1) * MillsPerCent

\* A returned valuation whose total differs from the sum of its entries, over
\* a snapshot that holds an asset with zero free balance and an excluded one.
C9_Witness ==
    /\ bpc = "returned"
    /\ account_assets["BALANCE"] # SumOver(account_assets, Reported)
    /\ \E i, k \in 1..Len(spot_account) :
        /\ spot_account[i].free = 0
        /\ spot_account[k].asset \in {"NFT", "BRL"}

\* The keys place_order, market_order and the account calls put in the dict.
RequiredKeys(o) ==
    CASE o = "place_order" ->
            {"symbol", "side", "type", "quoteOrderQty", "recvWindow", "timestamp",
             "timeInForce", "price"}
      [] o = "market_order" ->
            {"symbol", "side", "type", "quoteOrderQty", "recvWindow", "timestamp"}
      [] OTHER -> {"recvWindow", "timestamp"}

\* signature is the last key, and it is the digest of all the other
\* parameters, serialized in their order.
SignedLast(p) ==
    LET n == Len(p)
    IN  /\ n >= 3
        /\ p[n][1] = "signature"
        /\ \A i \in 1..(n - 1) : p[i][1] # "signature"
        /\ {p[i][1] : i \in 1..(n - 1)} = RequiredKeys(op)
        /\ p[n][2] = HmacSha256(binance_keys, QueryString(SubSeq(p, 1, n - 1)))

\* C10: in every authenticated operation the signature is computed last, over
\* all the other parameters in insertion order, it is the final key, and the
\* request sent carries exactly the parameters as signed.
C10_SignatureLast ==
    /\ apc = "signed" => SignedLast(params)
    /\ apc = "sent" => SignedLast(sent.params) /\ sent.params = params

\* A place_order request sent with its eight parameters and the signature.
C10_Witness ==
    /\ apc = "sent"
    /\ op = "place_order"
    /\ Len(sent.params) = 9
    /\ sent.params[8][1] = "price"

====
